---- MODULE Spec2Model ----
(***************************************************************************)
(* A model of the location_error crate (src/src/lib.rs): the error         *)
(* envelope LocationError {source, backtrace}, the call-site descriptor    *)
(* Location, the propagation traits ToLocation / AddLocation, and the      *)
(* serde codec serialize_source / deserialize_source.                      *)
(*                                                                         *)
(* Text is modelled character by character: a text is a sequence of        *)
(* one-character strings, so that quoting, escaping and indentation done   *)
(* by the formatting machinery are part of the model.                      *)
(***************************************************************************)
EXTENDS Integers, Sequences, FiniteSets, TLC

VARIABLES input, res, log, wire, recovered, rewire, pc

vars == <<input, res, log, wire, recovered, rewire, pc>>

(***************************************************************************)
(* Bounds of the model.                                                    *)
(***************************************************************************)
\* Number of propagation calls (add_location / loc / context) after the
\* conversion that are explored.
MaxOps == 3

(***************************************************************************)
(* Text literals.                                                          *)
(***************************************************************************)
OPTION_ERR == <<"O", "p", "t", "i", "o", "n", " ", "w", "a", "s", " ", "N", "o", "n", "e">>

DiskFull == <<"d", "i", "s", "k", " ", "f", "u", "l", "l">>

SayHi == <<"s", "a", "y", " ", "\"", "h", "i", "\"">>

ItsBad == <<"i", "t", "'", "s">>

Retry == <<"r", "e", "t", "r", "y">>

TwoLines == <<"a", "\n", "b">>

\* What `{:#?}` prints for std::io::Error::new(ErrorKind::Other, "disk full").
IoDebug == <<"C", "u", "s", "t", "o", "m", " ", "{", "\n", " ", " ", " ", " ", "k", "i", "n", "d", ":", " ", "O", "t", "h", "e", "r", ",", "\n", " ", " ", " ", " ", "e", "r", "r", "o", "r", ":", " ", "\"", "d", "i", "s", "k", " ", "f", "u", "l", "l", "\"", ",", "\n", "}">>

ErrorOpen == <<"E", "r", "r", "o", "r", " ", "{", "\n">>

ContextKey == <<"c", "o", "n", "t", "e", "x", "t", ":", " ">>

SourceKey == <<"s", "o", "u", "r", "c", "e", ":", " ">>

FieldEnd == <<",", "\n">>

Indent == <<" ", " ", " ", " ">>

(***************************************************************************)
(* Formatting primitives used by `{:#?}` on an anyhow::Error.              *)
(***************************************************************************)
\* char::escape_debug: the characters of the model's alphabet that are
\* escaped.  `single` says whether ' is escaped too: it is not by the Debug
\* of a str, it is by str::escape_debug.
EscapeChar(c, single) ==
    CASE c = "\"" -> <<"\\", "\"">>
      [] c = "\\" -> <<"\\", "\\">>
      [] c = "\n" -> <<"\\", "n">>
      [] c = "'" /\ single -> <<"\\", "'">>
      [] OTHER -> <<c>>

\* The escapes of the characters of s, in order (the text is split in
\* halves to keep the evaluation shallow).
RECURSIVE EscapeStr(_, _)
EscapeStr(s, single) ==
    IF Len(s) = 0 THEN <<>>
    ELSE IF Len(s) = 1 THEN EscapeChar(s[1], single)
    ELSE LET half == Len(s) \div 2
         IN  EscapeStr(SubSeq(s, 1, half), single)
             \o EscapeStr(SubSeq(s, half + 1, Len(s)), single)

\* <str as Debug>::fmt: the text between double quotes, escaped.
StrDebug(s) == <<"\"">> \o EscapeStr(s, FALSE) \o <<"\"">>

\* anyhow's Quoted(&context): the Display of the context between double
\* quotes, every piece passed through str::escape_debug.
Quoted(s) == <<"\"">> \o EscapeStr(s, TRUE) \o <<"\"">>

\* core::fmt's PadAdapter: on_newline is true at the start and after every
\* newline written, and four spaces are written before a character when it
\* is true.  PadRange pads the characters lo..hi of s (split in halves to
\* keep the evaluation shallow).
RECURSIVE PadRange(_, _, _)
PadRange(s, lo, hi) ==
    IF lo > hi THEN <<>>
    ELSE IF lo = hi
         THEN LET on_newline == (lo = 1) \/ (s[lo - 1] = "\n")
              IN  (IF on_newline THEN Indent ELSE <<>>) \o <<s[lo]>>
    ELSE LET mid == (lo + hi) \div 2
         IN  PadRange(s, lo, mid) \o PadRange(s, mid + 1, hi)

Pad(s) == PadRange(s, 1, Len(s))

\* Formatter::debug_struct("Error").field("context", ..).field("source", ..)
\* .finish() in pretty (alternate) mode.
ContextErrorDebug(contextText, sourceDebug) ==
    ErrorOpen
    \o Pad(ContextKey \o Quoted(contextText) \o FieldEnd)
    \o Pad(SourceKey \o sourceDebug \o FieldEnd)
    \o <<"}">>

(***************************************************************************)
(* Failure values.                                                         *)
(*   [kind |-> "msg", text]            an anyhow!("...") message error     *)
(*   [kind |-> "display_string", text] a DisplayString                     *)
(*   [kind |-> "typed", text, dbg]     a std error of the host program     *)
(*                                     with its own Display and Debug      *)
(***************************************************************************)
MsgError(t) == [kind |-> "msg", text |-> t]

TypedError(t, d) == [kind |-> "typed", text |-> t, dbg |-> d]

\* A faulty variant of DisplayString's Debug: the derived Debug of a tuple struct
\* holding a String would quote and escape the text.
DisplayStringDebugDerived(self) == StrDebug(self.text)

\* impl Debug for DisplayString: the string, verbatim.
DisplayStringDebug(self) == self.text

\* impl Display for DisplayString: the string, verbatim.
DisplayStringDisplay(self) == self.text

DisplayString(t) == [kind |-> "display_string", text |-> t]

\* Display of the root cause of an anyhow::Error.
RootDisplay(root) ==
    IF root.kind = "display_string" THEN DisplayStringDisplay(root)
    ELSE root.text

\* Debug of the root cause under the alternate flag.
RootAltDebug(root) ==
    CASE root.kind = "display_string" -> DisplayStringDebug(root)
      [] root.kind = "msg" -> StrDebug(root.text)
      [] OTHER -> root.dbg

(***************************************************************************)
(* anyhow::Error: a root cause under a stack of context layers, outermost  *)
(* layer first.                                                            *)
(***************************************************************************)
\* anyhow::Error::from(value)
ErrorFrom(value) == [layers |-> <<>>, root |-> value]

\* anyhow::Error::context(c): one more layer, outermost.
AnyhowContext(source, c) == [source EXCEPT !.layers = <<c>> \o @]

\* `{}` on an anyhow::Error: the outermost layer alone.
SourceDisplay(source) ==
    IF source.layers # <<>> THEN Head(source.layers)
    ELSE RootDisplay(source.root)

\* The texts of the chain, outermost first, root cause last.
Chain(source) == source.layers \o <<RootDisplay(source.root)>>

RECURSIVE LayersAltDebug(_, _)
LayersAltDebug(layers, root) ==
    IF layers = <<>> THEN RootAltDebug(root)
    ELSE ContextErrorDebug(Head(layers), LayersAltDebug(Tail(layers), root))

\* `{:#?}` on an anyhow::Error: the Debug of the outermost error object
\* under the alternate flag.
SourceAltDebug(source) == LayersAltDebug(source.layers, source.root)

(***************************************************************************)
(* Location and the envelope.                                              *)
(***************************************************************************)
\* The call sites of the host program, as std::panic::Location values.
Callers ==
    { [file |-> "main.rs", line |-> 10, column |-> 5],
      [file |-> "main.rs", line |-> 20, column |-> 9],
      [file |-> "rpc.rs", line |-> 7, column |-> 14] }

\* The caller of a function that is not #[track_caller]: not observable.
Nowhere == [file |-> "", line |-> 0, column |-> 0]

\* impl From<&'static StdLocation<'static>> for Location
LocationFrom(value) ==
    [file |-> value.file, line |-> value.line, col |-> value.column]

\* A faulty variant of new: the creation site is not recorded.
newNoFrame(value, caller) ==
    [source |-> ErrorFrom(value), backtrace |-> <<>>]

\* LocationError::new, called from `caller`.
new(value, caller) ==
    [source |-> ErrorFrom(value), backtrace |-> <<LocationFrom(caller)>>]

\* A faulty variant of add_location: the frame is put in front.
add_locationFront(self, caller) ==
    [self EXCEPT !.backtrace = <<LocationFrom(caller)>> \o @]

\* Another faulty variant of add_location: only the latest frame is kept.
add_locationLatest(self, caller) ==
    [self EXCEPT !.backtrace = <<LocationFrom(caller)>>]

\* LocationError::add_location, called from `caller`.
add_location(self, caller) ==
    [self EXCEPT !.backtrace = Append(@, LocationFrom(caller))]

\* A faulty variant of context: the annotation also records a frame.
contextWithFrame(self, c) ==
    [self EXCEPT !.source = AnyhowContext(@, c),
                 !.backtrace = Append(@, LocationFrom(Nowhere))]

\* LocationError::context
context(self, c) == [self EXCEPT !.source = AnyhowContext(@, c)]

(***************************************************************************)
(* Results.                                                                *)
(***************************************************************************)
Ok(v) == [tag |-> "Ok", val |-> v]

Err(e) == [tag |-> "Err", err |-> e]

Raw == [tag |-> "Raw"]

\* impl ToLocation<T> for Result<T, E>: loc
ResultLocFn(self, caller) ==
    IF self.tag = "Ok" THEN Ok(self.val) ELSE Err(new(self.err, caller))

\* A faulty variant of no_loc: it captures its caller as loc does.
ResultNoLocCapturing(self) ==
    IF self.tag = "Ok" THEN Ok(self.val)
    ELSE Err([source |-> ErrorFrom(self.err),
              backtrace |-> <<LocationFrom(Nowhere)>>])

\* impl ToLocation<T> for Result<T, E>: no_loc
ResultNoLocFn(self) ==
    IF self.tag = "Ok" THEN Ok(self.val)
    ELSE Err([source |-> ErrorFrom(self.err), backtrace |-> <<>>])

\* A faulty variant of Option's loc: the absence is reported with another text.
OptionLocOtherText(self, caller) ==
    IF self.tag = "Some" THEN Ok(self.val)
    ELSE Err(new(MsgError(<<"N", "o", "n", "e">>), caller))

\* impl ToLocation<T> for Option<T>: loc
OptionLocFn(self, caller) ==
    IF self.tag = "Some" THEN Ok(self.val)
    ELSE Err(new(MsgError(OPTION_ERR), caller))

\* impl ToLocation<T> for Option<T>: no_loc
OptionNoLocFn(self) ==
    IF self.tag = "Some" THEN Ok(self.val)
    ELSE Err([source |-> ErrorFrom(MsgError(OPTION_ERR)), backtrace |-> <<>>])

\* impl AddLocation<T> for Result<T, LocationError>: loc
AddLocationLocFn(self, caller) ==
    IF self.tag = "Ok" THEN Ok(self.val)
    ELSE Err(add_location(self.err, caller))

\* impl AddLocation<T> for Result<T, LocationError>: context
AddLocationContextFn(self, c) ==
    IF self.tag = "Ok" THEN self ELSE Err(context(self.err, c))

(***************************************************************************)
(* The codec.  A transportable record is a record in the sense of the      *)
(* serde data model: its DOMAIN is the set of its field names.             *)
(***************************************************************************)
\* serialize_source: format!("{value:#?}")
serialize_source(value) == SourceAltDebug(value)

\* A faulty variant of deserialize_source: the string becomes an anyhow message.
deserialize_sourceMsg(v) == ErrorFrom(MsgError(v))

\* deserialize_source: anyhow!(DisplayString(v))
deserialize_source(v) == ErrorFrom(DisplayString(v))

\* A faulty variant of SerializeLocation: the column goes out as `column`.
SerializeLocationColumn(l) ==
    [file |-> l.file, line |-> l.line, column |-> l.col]

\* #[derive(Serialize)] for Location
SerializeLocation(l) == [file |-> l.file, line |-> l.line, col |-> l.col]

RECURSIVE SerializeBacktrace(_)
SerializeBacktrace(bt) ==
    IF bt = <<>> THEN <<>>
    ELSE <<SerializeLocation(Head(bt))>> \o SerializeBacktrace(Tail(bt))

\* #[derive(Serialize)] for LocationError
Encode(e) ==
    [source |-> serialize_source(e.source),
     backtrace |-> SerializeBacktrace(e.backtrace)]

\* #[derive(Deserialize)] for Location accepts an object that has the
\* fields file, line and col, line and col unsigned (u32); other fields
\* are ignored.
LocationAccepted(o) ==
    /\ {"file", "line", "col"} \subseteq DOMAIN o
    /\ o.line \in Nat
    /\ o.col \in Nat

DeserializeLocation(o) == [file |-> o.file, line |-> o.line, col |-> o.col]

RECURSIVE DeserializeBacktrace(_)
DeserializeBacktrace(bt) ==
    IF bt = <<>> THEN <<>>
    ELSE <<DeserializeLocation(Head(bt))>> \o DeserializeBacktrace(Tail(bt))

\* #[derive(Deserialize)] for LocationError accepts a record that has the
\* fields source and backtrace, every backtrace element accepted.
WellFormed(r) ==
    /\ {"source", "backtrace"} \subseteq DOMAIN r
    /\ \A i \in 1..Len(r.backtrace) : LocationAccepted(r.backtrace[i])

CodecErr == [tag |-> "CodecErr"]

\* A faulty variant of Decode: the backtrace is dropped on the way in.
DecodeNoBacktrace(r) ==
    IF ~WellFormed(r) THEN CodecErr
    ELSE [tag |-> "Ok",
          err |-> [source |-> deserialize_source(r.source), backtrace |-> <<>>]]

\* #[derive(Deserialize)] for LocationError
Decode(r) ==
    IF ~WellFormed(r) THEN CodecErr
    ELSE [tag |-> "Ok",
          err |-> [source |-> deserialize_source(r.source),
                   backtrace |-> DeserializeBacktrace(r.backtrace)]]

(***************************************************************************)
(* The host program: it holds a fallible result or an optional value,      *)
(* converts it, propagates it upward, and sends it across a boundary.      *)
(***************************************************************************)
Values == {1, 2}

\* The failure values E of the host program (anyhow::Error: From<E>).
Failures ==
    { MsgError(DiskFull), MsgError(SayHi),
      TypedError(DiskFull, IoDebug), DisplayString(TwoLines) }

\* The messages given to context.
ContextMessages == {Retry, ItsBad}

Inputs ==
    { [type |-> "Result", tag |-> "Ok", val |-> v] : v \in Values }
    \cup { [type |-> "Result", tag |-> "Err", err |-> f] : f \in Failures }
    \cup { [type |-> "Option", tag |-> "Some", val |-> v] : v \in Values }
    \cup { [type |-> "Option", tag |-> "None"] }

\* Records that arrive from another process.
ForeignRecords ==
    { [source |-> DiskFull, backtrace |-> <<>>],
      [source |-> SayHi,
       backtrace |-> <<[file |-> "far.rs", line |-> 3, col |-> 1],
                       [file |-> "far.rs", line |-> 0, col |-> 0]>>],
      [source |-> TwoLines, note |-> Retry,
       backtrace |-> <<[file |-> "far.rs", line |-> 3, col |-> 1, fn |-> "f"]>>],
      [source |-> DiskFull,
       backtrace |-> <<[file |-> "far.rs", line |-> 3, column |-> 1]>>],
      [source |-> DiskFull,
       backtrace |-> <<[file |-> "far.rs", line |-> -1, col |-> 1]>>],
      [backtrace |-> <<>>] }

Absent == [tag |-> "Absent"]

Called(op, caller) == [op |-> op, caller |-> caller]

Init ==
    /\ input \in Inputs
    /\ res = Raw
    /\ log = <<>>
    /\ wire = Absent
    /\ recovered = Absent
    /\ rewire = Absent
    /\ pc = "start"

\* LocationError::new(value) on the failure of a failed result.
New(caller) ==
    /\ pc = "start" /\ input.type = "Result" /\ input.tag = "Err"
    /\ res' = Err(new(input.err, caller))
    /\ log' = <<Called("new", caller)>>
    /\ pc' = "result"
    /\ UNCHANGED <<input, wire, recovered, rewire>>

\* result.loc() on a Result<T, E>.
ResultLoc(caller) ==
    /\ pc = "start" /\ input.type = "Result"
    /\ res' = ResultLocFn(input, caller)
    /\ log' = <<Called("loc", caller)>>
    /\ pc' = "result"
    /\ UNCHANGED <<input, wire, recovered, rewire>>

\* result.no_loc() on a Result<T, E>.
ResultNoLoc(caller) ==
    /\ pc = "start" /\ input.type = "Result"
    /\ res' = ResultNoLocFn(input)
    /\ log' = <<Called("no_loc", caller)>>
    /\ pc' = "result"
    /\ UNCHANGED <<input, wire, recovered, rewire>>

\* option.loc() on an Option<T>.
OptionLoc(caller) ==
    /\ pc = "start" /\ input.type = "Option"
    /\ res' = OptionLocFn(input, caller)
    /\ log' = <<Called("loc", caller)>>
    /\ pc' = "result"
    /\ UNCHANGED <<input, wire, recovered, rewire>>

\* option.no_loc() on an Option<T>.
OptionNoLoc(caller) ==
    /\ pc = "start" /\ input.type = "Option"
    /\ res' = OptionNoLocFn(input)
    /\ log' = <<Called("no_loc", caller)>>
    /\ pc' = "result"
    /\ UNCHANGED <<input, wire, recovered, rewire>>

\* err.add_location() on the envelope of a failed result.
AddLocation(caller) ==
    /\ pc = "result" /\ res.tag = "Err" /\ Len(log) <= MaxOps
    /\ res' = Err(add_location(res.err, caller))
    /\ log' = Append(log, Called("add_location", caller))
    /\ UNCHANGED <<input, wire, recovered, rewire, pc>>

\* result.loc() on a Result<T, LocationError>.
Loc(caller) ==
    /\ pc = "result" /\ Len(log) <= MaxOps
    /\ res' = AddLocationLocFn(res, caller)
    /\ log' = Append(log, Called("add_location", caller))
    /\ UNCHANGED <<input, wire, recovered, rewire, pc>>

\* err.context(c) on the envelope of a failed result.
Context(c) ==
    /\ pc = "result" /\ res.tag = "Err" /\ Len(log) <= MaxOps
    /\ res' = Err(context(res.err, c))
    /\ log' = Append(log, Called("context", Nowhere))
    /\ UNCHANGED <<input, wire, recovered, rewire, pc>>

\* result.context(c) on a Result<T, LocationError>.
ResultContext(c) ==
    /\ pc = "result" /\ Len(log) <= MaxOps
    /\ res' = AddLocationContextFn(res, c)
    /\ log' = Append(log, Called("context", Nowhere))
    /\ UNCHANGED <<input, wire, recovered, rewire, pc>>

\* serde: the envelope of a failed result is serialized (by reference).
Serialize ==
    /\ pc = "result" /\ res.tag = "Err"
    /\ wire' = Encode(res.err)
    /\ pc' = "sent"
    /\ UNCHANGED <<input, res, log, recovered, rewire>>

\* A record produced elsewhere arrives instead.
Receive(r) ==
    /\ pc = "start"
    /\ wire' = r
    /\ pc' = "sent"
    /\ UNCHANGED <<input, res, log, recovered, rewire>>

\* serde: the record is deserialized into a new envelope.
Deserialize ==
    /\ pc = "sent"
    /\ recovered' = Decode(wire)
    /\ pc' = "received"
    /\ UNCHANGED <<input, res, log, wire, rewire>>

\* serde: the recovered envelope is serialized again.
Reserialize ==
    /\ pc = "received" /\ recovered.tag = "Ok"
    /\ rewire' = Encode(recovered.err)
    /\ pc' = "resent"
    /\ UNCHANGED <<input, res, log, wire, recovered>>

Next ==
    \/ \E caller \in Callers : New(caller)
    \/ \E caller \in Callers : ResultLoc(caller)
    \/ \E caller \in Callers : ResultNoLoc(caller)
    \/ \E caller \in Callers : OptionLoc(caller)
    \/ \E caller \in Callers : OptionNoLoc(caller)
    \/ \E caller \in Callers : AddLocation(caller)
    \/ \E caller \in Callers : Loc(caller)
    \/ \E c \in ContextMessages : Context(c)
    \/ \E c \in ContextMessages : ResultContext(c)
    \/ Serialize
    \/ \E r \in ForeignRecords : Receive(r)
    \/ Deserialize
    \/ Reserialize

Spec == Init /\ [][Next]_vars

(***************************************************************************)
(* Helpers of the properties.                                              *)
(***************************************************************************)
IsPrefix(a, b) == Len(a) <= Len(b) /\ SubSeq(b, 1, Len(a)) = a

IsAppend(call) == call.op = "add_location"

IsContext(call) == call.op = "context"

\* The add_location / loc calls made after the conversion, in call order.
Appends == SelectSeq(Tail(log), IsAppend)

\* The context calls made after the conversion, in call order.
Annotations == SelectSeq(Tail(log), IsContext)

Failed == res.tag = "Err"

\* The envelope was made by LocationError::new, directly or through loc().
Created == Failed /\ log # <<>> /\ log[1].op \in {"new", "loc"}

\* The envelope was made by no_loc().
CreatedSilent == Failed /\ log # <<>> /\ log[1].op = "no_loc"

\* The characters a text of the model is made of.
Alphabet ==
    { "a", "b", "c", "d", "e", "f", "g", "h", "i", "j", "k", "l", "m",
      "n", "o", "p", "q", "r", "s", "t", "u", "v", "w", "x", "y", "z",
      "C", "E", "N", "O", " ", "\"", "\\", "\n", "'", "{", "}", ":", "," }

(***************************************************************************)
(* C1.  create(e) followed by n append_frame calls yields a backtrace of   *)
(* length exactly 1 + n: entry 0 is the call site of the create and entry  *)
(* i is the call site of the i-th append.                                  *)
(***************************************************************************)
C1_CreateThenAppend ==
    Created =>
        LET bt == res.err.backtrace
        IN  /\ Len(bt) = 1 + Len(Appends)
            /\ bt[1] = LocationFrom(log[1].caller)
            /\ \A i \in 1..Len(Appends) :
                   bt[1 + i] = LocationFrom(Appends[i].caller)

\* Two appends at different call sites, an annotation among the calls.
C1_Witness ==
    /\ Created
    /\ Len(Appends) = 2
    /\ Appends[1].caller # Appends[2].caller
    /\ Appends[1].caller # log[1].caller
    /\ Len(Annotations) = 1

(***************************************************************************)
(* C2.  The scenario: an envelope is created from a failure whose message  *)
(* is "disk full", then two frames are appended at distinct call sites A   *)
(* then B.                                                                 *)
(***************************************************************************)
Scenario ==
    /\ Created
    /\ input.type = "Result"
    /\ RootDisplay(input.err) = DiskFull
    /\ Len(log) = 3
    /\ IsAppend(log[2]) /\ IsAppend(log[3])
    /\ log[2].caller # log[3].caller

\* C2 as stated: in the scenario the backtrace equals exactly [A, B].
C2_Original ==
    Scenario =>
        res.err.backtrace
            = <<LocationFrom(log[2].caller), LocationFrom(log[3].caller)>>

\* C2 as amended: in the scenario the backtrace equals [C, A, B], C the
\* call site of the create, so that [A, B] is what follows its first entry.
C2_ScenarioBacktrace ==
    Scenario =>
        /\ res.err.backtrace
               = <<LocationFrom(log[1].caller), LocationFrom(log[2].caller),
                   LocationFrom(log[3].caller)>>
        /\ Tail(res.err.backtrace)
               = <<LocationFrom(log[2].caller), LocationFrom(log[3].caller)>>

\* The scenario with three different call sites.
C2_Witness ==
    /\ Scenario
    /\ log[1].caller # log[2].caller
    /\ log[1].caller # log[3].caller
    /\ input.err.kind = "msg"

(***************************************************************************)
(* C3.  The text shown when the source of decode(encode(e)) is displayed   *)
(* and the text shown when the source of e is displayed.                   *)
(***************************************************************************)
RoundTripped == Failed /\ pc \in {"received", "resent"} /\ recovered.tag = "Ok"

Encoded == Failed /\ pc \in {"sent", "received", "resent"}

RecordShape(r, bt, column) ==
    /\ DOMAIN r = {"source", "backtrace"}
    /\ r.source \in Seq(Alphabet)
    /\ Len(r.backtrace) = Len(bt)
    /\ \A i \in 1..Len(bt) :
           /\ DOMAIN r.backtrace[i] = {"file", "line", column}
           /\ r.backtrace[i].file = bt[i].file
           /\ r.backtrace[i].line = bt[i].line
           /\ r.backtrace[i][column] = bt[i].col

\* C4 as stated: the three fields are file, line and column.
C4_Original == Encoded => RecordShape(wire, res.err.backtrace, "column")

\* C4 as amended: the three fields are file, line and col.
C4_RecordShape == Encoded => RecordShape(wire, res.err.backtrace, "col")

\* An encoded envelope with three frames.
C4_Witness ==
    /\ Encoded
    /\ Len(wire.backtrace) = 3
    /\ wire.backtrace[1] = SerializeLocation(LocationFrom(log[1].caller))
    /\ wire.backtrace[1] # wire.backtrace[2]

(***************************************************************************)
(* C5.  Round-trip stability: encode(decode(encode(e))).source equals      *)
(* encode(e).source, also when e carries several context layers over a     *)
(* typed root cause.                                                       *)
(***************************************************************************)
C5_RoundTripStable ==
    (Failed /\ pc = "resent") => rewire.source = wire.source

\* Two context layers over a typed root cause, encoded, decoded, encoded.
C5_Witness ==
    /\ Failed /\ pc = "resent"
    /\ Len(res.err.source.layers) = 2
    /\ res.err.source.root.kind = "typed"
    /\ rewire.source # SourceDisplay(res.err.source)

(***************************************************************************)
(* C6.  For a well-formed record r, decode(r) has a backtrace equal to     *)
(* r.backtrace element for element, and a source that is a single-layer    *)
(* string failure whose text equals r.source.                              *)
(***************************************************************************)
C6_DecodeLossless ==
    (pc \in {"received", "resent"} /\ WellFormed(wire)) =>
        /\ recovered.tag = "Ok"
        /\ LET bt == recovered.err.backtrace
               src == recovered.err.source
           IN  /\ Len(bt) = Len(wire.backtrace)
               /\ \A i \in 1..Len(bt) :
                      /\ bt[i].file = wire.backtrace[i].file
                      /\ bt[i].line = wire.backtrace[i].line
                      /\ bt[i].col = wire.backtrace[i].col
               /\ src.layers = <<>>
               /\ src.root.kind = "display_string"
               /\ Chain(src) = <<wire.source>>
               /\ SourceDisplay(src) = wire.source

\* A record from elsewhere, with two entries, decoded.
C6_Witness ==
    /\ pc = "received" /\ ~Failed
    /\ WellFormed(wire)
    /\ Len(wire.backtrace) = 2
    /\ recovered.tag = "Ok"

(***************************************************************************)
(* C7.  For every operation applied to an envelope, the backtrace before   *)
(* the operation is a prefix of the backtrace after it.                    *)
(***************************************************************************)
C7_BacktraceOnlyGrows ==
    [][(res.tag = "Err" /\ res'.tag = "Err")
           => IsPrefix(res.err.backtrace, res'.err.backtrace)]_vars

\* An envelope that went through appends at different sites and a context.
C7_Witness ==
    /\ Failed
    /\ Len(res.err.backtrace) >= 3
    /\ res.err.backtrace[2] # res.err.backtrace[3]
    /\ Len(res.err.source.layers) >= 1

(***************************************************************************)
(* C8.  no_loc() on a failed result or an absent optional yields a         *)
(* backtrace of length 0, and k later add_frame calls give a backtrace of  *)
(* length exactly k holding the k call sites in call order.                *)
(***************************************************************************)
C8_SilentThenAppend ==
    CreatedSilent =>
        LET bt == res.err.backtrace
        IN  /\ Len(log) = 1 => bt = <<>>
            /\ Len(bt) = Len(Appends)
            /\ \A i \in 1..Len(Appends) :
                   bt[i] = LocationFrom(Appends[i].caller)

\* no_loc on an absent optional, then two appends at different sites.
C8_Witness ==
    /\ CreatedSilent
    /\ input.type = "Option"
    /\ Len(Appends) = 2
    /\ Appends[1].caller # Appends[2].caller

(***************************************************************************)
(* C9.  context(msg) on an envelope in any state leaves the backtrace      *)
(* unchanged and adds exactly one context layer, which becomes the         *)
(* outermost, first displayed, layer.                                      *)
(***************************************************************************)
C9_ContextFrame ==
    [][(res.tag = "Err" /\ Len(log') = Len(log) + 1
            /\ log'[Len(log')].op = "context")
           => /\ res'.tag = "Err"
              /\ res'.err.backtrace = res.err.backtrace
              /\ res'.err.source.root = res.err.source.root
              /\ Len(res'.err.source.layers) = Len(res.err.source.layers) + 1
              /\ Tail(res'.err.source.layers) = res.err.source.layers
              /\ Head(res'.err.source.layers) \in ContextMessages
              /\ SourceDisplay(res'.err.source) = Head(res'.err.source.layers)
      ]_vars

\* A second, different, context layer put on an envelope with two frames.
C9_Witness ==
    /\ Failed
    /\ log[Len(log)].op = "context"
    /\ Len(res.err.source.layers) = 2
    /\ res.err.source.layers[1] # res.err.source.layers[2]
    /\ Len(res.err.backtrace) = 2

(***************************************************************************)
(* C10.  An absent optional converted by loc() is a failed result whose    *)
(* source message is exactly "Option was None" and whose backtrace is the  *)
(* call site of loc(); by no_loc(), the same message and an empty          *)
(* backtrace; a present optional is a success with its value unchanged.    *)
(***************************************************************************)
C10_OptionConversion ==
    (input.type = "Option" /\ log # <<>>) =>
        /\ input.tag = "Some" => res = Ok(input.val)
        /\ (input.tag = "None" /\ Len(log) = 1) =>
               /\ res.tag = "Err"
               /\ SourceDisplay(res.err.source) = OPTION_ERR
               /\ Chain(res.err.source) = <<OPTION_ERR>>
               /\ log[1].op = "loc" =>
                      res.err.backtrace = <<LocationFrom(log[1].caller)>>
               /\ log[1].op = "no_loc" => res.err.backtrace = <<>>

\* An absent optional just converted by loc().
C10_Witness ==
    /\ input.type = "Option" /\ input.tag = "None"
    /\ Len(log) = 1 /\ log[1].op = "loc"
    /\ Failed
    /\ Len(res.err.backtrace) = 1

====
